---- MODULE Spec2Model ----
(***************************************************************************)
(* Piper TTS service (src/main.py): sentence units are synthesized in a    *)
(* ThreadPoolExecutor, reassembled either by asyncio.gather (/tts) or by   *)
(* asyncio.as_completed (/tts/stream), and merged by combine_wav_chunks.   *)
(* split_into_sentences cuts the text into the units, and lifespan unloads *)
(* the voice model after the pool has been shut down.                      *)
(***************************************************************************)
EXTENDS Integers, Sequences, FiniteSets, TLC

\* ------------------------------------------------------------------ bounds
NumRequests == 2
MaxSentences == 3
MaxUnits == 5
MaxChunks == 3
MaxText == 5

\* ThreadPoolExecutor(max_workers=4)
PoolSize == 4

Reqs == 1..NumRequests
Idx == 1..MaxSentences

\* ------------------------------------------------------------------- bytes
\* A Python value of type Optional[bytes].  kind "none" is None, kind "raw"
\* is a byte string the wave module cannot parse (frames holds its data, the
\* empty sequence being b""), kind "wav" is a RIFF/WAVE container with its
\* three format fields and its sample frames; hdr tells whether the container
\* bytes around the frames are the ones wave.open(..., 'wb') writes itself.
None == [kind |-> "none", nchannels |-> 0, sampwidth |-> 0, framerate |-> 0,
         frames |-> <<>>, hdr |-> "-"]

Raw(data) == [kind |-> "raw", nchannels |-> 0, sampwidth |-> 0, framerate |-> 0,
              frames |-> data, hdr |-> "-"]

Wav(fmt, frames, hdr) == [kind |-> "wav", nchannels |-> fmt.nchannels,
                          sampwidth |-> fmt.sampwidth, framerate |-> fmt.framerate,
                          frames |-> frames, hdr |-> hdr]

\* Python truthiness of an Optional[bytes]: None and b"" are falsy.
Truthy(b) == b.kind # "none" /\ ~(b.kind = "raw" /\ b.frames = <<>>)

\* wave.open(io.BytesIO(b), 'rb') succeeds
Parseable(b) == b.kind = "wav"

\* params = first_wav.getparams(): the fields the merge reads
getparams(b) == [nchannels |-> b.nchannels, sampwidth |-> b.sampwidth,
                 framerate |-> b.framerate]

\* out_wav.setparams(params) succeeds: the wave writer takes sample widths
\* of 1 to 4 bytes and a positive frame rate (the reader has already
\* refused a file with no channels or a zero sample width).
Writable(params) == params.sampwidth \in 1..4 /\ params.framerate > 0

\* ------------------------------------------------------- combine_wav_chunks
\* The for loop of combine_wav_chunks from chunk i on: the frames written to
\* out_wav.  An unparseable chunk raises inside the inner try and is skipped,
\* a chunk whose parameters differ is skipped, both with `continue`.
\* Mutant: the loop stops at the first chunk it cannot use (`break`).
RECURSIVE WriteChunks_Break(_, _, _)
WriteChunks_Break(chunks, params, i) ==
    IF i > Len(chunks) THEN <<>>
    ELSE IF ~Parseable(chunks[i]) THEN <<>>
    ELSE IF \/ chunks[i].nchannels # params.nchannels
            \/ chunks[i].sampwidth # params.sampwidth
            \/ chunks[i].framerate # params.framerate
         THEN <<>>
    ELSE chunks[i].frames \o WriteChunks_Break(chunks, params, i + 1)

\* Mutant: each chunk's frames are put in front of what was written before.
RECURSIVE WriteChunks_Reversed(_, _, _)
WriteChunks_Reversed(chunks, params, i) ==
    IF i > Len(chunks) THEN <<>>
    ELSE IF ~Parseable(chunks[i]) THEN WriteChunks_Reversed(chunks, params, i + 1)
    ELSE IF getparams(chunks[i]) # params THEN WriteChunks_Reversed(chunks, params, i + 1)
    ELSE WriteChunks_Reversed(chunks, params, i + 1) \o chunks[i].frames

\* Mutant: the loop runs over chunks[1:], the first chunk only gives the header.
RECURSIVE WriteChunks_SkipsFirst(_, _, _)
WriteChunks_SkipsFirst(chunks, params, i) ==
    IF i > Len(chunks) THEN <<>>
    ELSE IF i = 1 THEN WriteChunks_SkipsFirst(chunks, params, i + 1)
    ELSE IF ~Parseable(chunks[i]) THEN WriteChunks_SkipsFirst(chunks, params, i + 1)
    ELSE IF getparams(chunks[i]) # params THEN WriteChunks_SkipsFirst(chunks, params, i + 1)
    ELSE chunks[i].frames \o WriteChunks_SkipsFirst(chunks, params, i + 1)

RECURSIVE WriteChunks(_, _, _)
WriteChunks(chunks, params, i) ==
    IF i > Len(chunks) THEN <<>>
    ELSE IF ~Parseable(chunks[i]) THEN WriteChunks(chunks, params, i + 1)
    ELSE IF \/ chunks[i].nchannels # params.nchannels
            \/ chunks[i].sampwidth # params.sampwidth
            \/ chunks[i].framerate # params.framerate
         THEN WriteChunks(chunks, params, i + 1)
    ELSE chunks[i].frames \o WriteChunks(chunks, params, i + 1)

\* Mutant: no `len(chunks) == 1` shortcut, a single chunk is rewritten too.
combine_wav_chunks_RewritesSingle(chunks) ==
    IF chunks = <<>> THEN Raw(<<>>)
    ELSE IF ~Parseable(chunks[1]) THEN chunks[1]
    ELSE IF ~Writable(getparams(chunks[1])) THEN chunks[1]
    ELSE Wav(getparams(chunks[1]), WriteChunks(chunks, getparams(chunks[1]), 1), "canon")

\* Mutant: the header comes from the first chunk that parses, an unparseable
\* first chunk is skipped like any other.
combine_wav_chunks_SkipsBadFirst(chunks) ==
    IF chunks = <<>> THEN Raw(<<>>)
    ELSE IF Len(chunks) = 1 THEN chunks[1]
    ELSE LET good == SelectSeq(chunks, Parseable)
         IN IF good = <<>> THEN chunks[1]
            ELSE IF ~Writable(getparams(good[1])) THEN chunks[1]
            ELSE Wav(getparams(good[1]), WriteChunks(good, getparams(good[1]), 1), "canon")

combine_wav_chunks(chunks) ==
    IF chunks = <<>> THEN Raw(<<>>)
    ELSE IF Len(chunks) = 1 THEN chunks[1]
    ELSE IF ~Parseable(chunks[1]) THEN chunks[1]
    ELSE IF ~Writable(getparams(chunks[1])) THEN chunks[1]
    ELSE Wav(getparams(chunks[1]), WriteChunks(chunks, getparams(chunks[1]), 1), "canon")

\* ------------------------------------------------------------------- state
VARIABLES
    voice_model,   \* global voice_model is loaded (not None)
    phase,         \* per request: where its handler / response is
    mode,          \* per request: "tts" (buffered) or "stream"
    nsent,         \* per request: len(tasks), the number of sentence units
    ustate,        \* per unit: "none", "queued", "running", "done"
    result,        \* per unit: what its generate_sentence_chunk task returned
    outcome,       \* per unit: what voice_model.synthesize did for it
    calls,         \* per unit: number of voice_model.synthesize invocations
    workq,         \* executor._work_queue: units submitted and not yet started
    order,         \* per request: its units in the order their tasks completed
    consumed,      \* per stream: how many of them the generator has awaited
    emitted,       \* per request: chunks the generator has yielded
    valid_chunks,  \* per request: the list handed to combine_wav_chunks
    resp,          \* per request: Response content and X-Chunks-Count
    chunks,        \* argument of a direct combine_wav_chunks call
    merged,        \* its return value
    mergeDone,     \* the call has returned
    answer,        \* what text_to_speech answers when gather returned chunks
    text,          \* argument of a direct split_into_sentences call
    sentences,     \* its return value
    splitDone,     \* the call has returned
    shutdown_event,\* shutdown_event is set
    life           \* where lifespan is: "serving", "waiting", "draining", "unloaded"

vars == <<voice_model, phase, mode, nsent, ustate, result, outcome, calls, workq,
          order, consumed, emitted, valid_chunks, resp, chunks, merged, mergeDone,
          answer, text, sentences, splitDone, shutdown_event, life>>

pipeVars == <<voice_model, phase, mode, nsent, ustate, result, outcome, calls,
              workq, order, consumed, emitted, valid_chunks, resp>>

mergeVars == <<chunks, merged, mergeDone, answer>>

splitVars == <<text, sentences, splitDone>>

lifeVars == <<shutdown_event, life>>

\* What voice_model.synthesize(sentence, audio_buffer) does: it writes the
\* unit's audio as a WAV container, or it raises.
PortOutcomes == {"ok", "raise"}

\* The audio format of the one loaded voice (voice_model.config)
VoiceFormat == [nchannels |-> 1, sampwidth |-> 2, framerate |-> 22050]

\* The sample frame standing for the audio of unit i of request r
Tag(r, i) == r * 10 + i

\* audio_buffer.getvalue() after voice_model.synthesize returned normally
PortBytes(r, i, o) == IF o = "ok" THEN Wav(VoiceFormat, <<Tag(r, i)>>, "canon")
                      ELSE Raw(<<>>)   \* the buffer when nothing was written

\* synthesize_sentence: the bytes written, or None when synthesize raised
synthesize_sentence(r, i, o) == IF o = "raise" THEN None ELSE PortBytes(r, i, o)

Running == {u \in Reqs \X Idx : ustate[u[1]][u[2]] = "running"}

\* Mutant: a thread per work item, no max_workers.
SlotFree_Unbounded == TRUE

\* a worker thread of the pool is free to take the next work item
SlotFree == Cardinality(Running) < PoolSize

TotalUnits == LET RECURSIVE Sum(_)
                  Sum(r) == IF r = 0 THEN 0 ELSE nsent[r] + Sum(r - 1)
              IN Sum(NumRequests)

Perms(n) == {p \in [1..n -> 1..n] : \A a, b \in 1..n : p[a] = p[b] => a = b}

\* Mutant: the results collected as the tasks complete.
gather_ByCompletion(r) == [k \in 1..nsent[r] |-> result[r][order[r][k]]]

\* results of the tasks in argument order: what `await asyncio.gather(*tasks)` returns
gather(r) == [i \in 1..nsent[r] |-> result[r][i]]

\* Mutant: `for task in tasks`, the tasks awaited in sentence order.
as_completed_InListOrder(r) == consumed[r] + 1

\* the next task `for task in asyncio.as_completed(tasks)` hands out
as_completed(r) == order[r][consumed[r] + 1]

PipeIdle ==
    /\ phase = [r \in Reqs |-> "idle"]
    /\ mode = [r \in Reqs |-> "-"]
    /\ nsent = [r \in Reqs |-> 0]
    /\ ustate = [r \in Reqs |-> [i \in Idx |-> "none"]]
    /\ result = [r \in Reqs |-> [i \in Idx |-> None]]
    /\ outcome = [r \in Reqs |-> [i \in Idx |-> "-"]]
    /\ calls = [r \in Reqs |-> [i \in Idx |-> 0]]
    /\ workq = <<>>
    /\ order = [r \in Reqs |-> <<>>]
    /\ consumed = [r \in Reqs |-> 0]
    /\ emitted = [r \in Reqs |-> <<>>]
    /\ valid_chunks = [r \in Reqs |-> <<>>]
    /\ resp = [r \in Reqs |-> [body |-> None, count |-> 0]]

MergeIdle ==
    /\ chunks = <<>>
    /\ merged = None
    /\ mergeDone = FALSE
    /\ answer = [status |-> "-", valid_chunks |-> <<>>, body |-> None, count |-> 0]

SplitIdle ==
    /\ text = <<>>
    /\ sentences = <<>>
    /\ splitDone = FALSE

\* lifespan has yielded: the application serves, shutdown_event is not set
LifeIdle ==
    /\ shutdown_event = FALSE
    /\ life = "serving"

\* lifespan startup: the model is loaded, or loading failed and it stays None
Init ==
    /\ voice_model \in BOOLEAN
    /\ PipeIdle
    /\ MergeIdle
    /\ SplitIdle
    /\ LifeIdle

\* Request r can arrive: requests are numbered in arrival order.
Arrives(r, n) ==
    /\ phase[r] = "idle"
    /\ r > 1 => phase[r - 1] # "idle"
    /\ TotalUnits + n <= MaxUnits

\* The tasks of request r for the units seq[1], seq[2], ... each run
\* generate_sentence_chunk up to its await, in that order: with no model
\* loaded the task returns None at once, otherwise loop.run_in_executor
\* submits synthesize_sentence to the executor.  (The units are the stripped,
\* non-empty strings split_into_sentences returns, so `not sentence.strip()`
\* is false for each.)
Submit(r, seq) ==
    LET picked == {seq[k] : k \in 1..Len(seq)}
    IN IF ~voice_model
       THEN /\ ustate' = [ustate EXCEPT ![r] =
                           [i \in Idx |-> IF i \in picked THEN "done" ELSE ustate[r][i]]]
            /\ result' = [result EXCEPT ![r] =
                           [i \in Idx |-> IF i \in picked THEN None ELSE result[r][i]]]
            /\ order' = [order EXCEPT ![r] = @ \o seq]
            /\ UNCHANGED workq
       ELSE /\ ustate' = [ustate EXCEPT ![r] =
                           [i \in Idx |-> IF i \in picked THEN "queued" ELSE ustate[r][i]]]
            /\ workq' = workq \o [k \in 1..Len(seq) |-> <<r, seq[k]>>]
            /\ UNCHANGED <<result, order>>

\* POST /tts: text_to_speech up to `await asyncio.gather(*tasks)`
text_to_speech(r, n) ==
    /\ Arrives(r, n)
    /\ mode' = [mode EXCEPT ![r] = "tts"]
    /\ IF ~voice_model
       THEN /\ phase' = [phase EXCEPT ![r] = "503"]
            /\ UNCHANGED <<nsent, ustate, workq, result, order>>
       ELSE IF n = 0
       THEN /\ phase' = [phase EXCEPT ![r] = "400"]
            /\ UNCHANGED <<nsent, ustate, workq, result, order>>
       ELSE /\ phase' = [phase EXCEPT ![r] = "gathering"]
            /\ nsent' = [nsent EXCEPT ![r] = n]
            /\ Submit(r, [k \in 1..n |-> k])
    /\ UNCHANGED <<voice_model, outcome, calls, consumed, emitted,
                   valid_chunks, resp, mergeVars, splitVars, lifeVars>>

\* POST /tts/stream: text_to_speech_stream returns the StreamingResponse
text_to_speech_stream(r, n) ==
    /\ Arrives(r, n)
    /\ mode' = [mode EXCEPT ![r] = "stream"]
    /\ IF ~voice_model
       THEN /\ phase' = [phase EXCEPT ![r] = "503"]
            /\ UNCHANGED nsent
       ELSE IF n = 0
       THEN /\ phase' = [phase EXCEPT ![r] = "400"]
            /\ UNCHANGED nsent
       ELSE /\ phase' = [phase EXCEPT ![r] = "accepted"]
            /\ nsent' = [nsent EXCEPT ![r] = n]
    /\ UNCHANGED <<voice_model, ustate, workq, result, outcome, calls, order,
                   consumed, emitted, valid_chunks, resp, mergeVars, splitVars, lifeVars>>

\* First __anext__ of stream_audio_chunks: asyncio.as_completed wraps the
\* coroutines of set(tasks) in tasks, so they start in the order p of that set.
StreamStart(r) ==
    /\ phase[r] = "accepted"
    /\ phase' = [phase EXCEPT ![r] = "streaming"]
    /\ \E p \in Perms(nsent[r]) : Submit(r, p)
    /\ UNCHANGED <<voice_model, mode, nsent, outcome, calls,
                   consumed, emitted, valid_chunks, resp, mergeVars, splitVars, lifeVars>>

\* A pool thread takes the oldest work item and calls synthesize_sentence,
\* which calls voice_model.synthesize.
WorkerStart ==
    /\ workq # <<>>
    /\ SlotFree
    /\ LET r == Head(workq)[1]
           i == Head(workq)[2]
       IN /\ ustate' = [ustate EXCEPT ![r][i] = "running"]
          /\ calls' = [calls EXCEPT ![r][i] = @ + 1]
    /\ workq' = Tail(workq)
    /\ UNCHANGED <<voice_model, phase, mode, nsent, result, outcome, order,
                   consumed, emitted, valid_chunks, resp, mergeVars, splitVars, lifeVars>>

\* Mutant: a unit whose synthesis raised takes the request's waiting units
\* down with it (their work items are dropped, their tasks end with None).
WorkerFinish_AbortsSiblings(r, i, o) ==
    /\ ustate[r][i] = "running"
    /\ o \in PortOutcomes
    /\ LET hit == IF o = "raise" THEN {j \in Idx : ustate[r][j] = "queued"} ELSE {}
           keep(u) == ~(u[1] = r /\ u[2] \in hit)
       IN /\ ustate' = [ustate EXCEPT ![r] =
                          [j \in Idx |-> IF j = i \/ j \in hit THEN "done" ELSE ustate[r][j]]]
          /\ workq' = SelectSeq(workq, keep)
    /\ outcome' = [outcome EXCEPT ![r][i] = o]
    /\ result' = [result EXCEPT ![r][i] = synthesize_sentence(r, i, o)]
    /\ order' = [order EXCEPT ![r] = Append(@, i)]
    /\ UNCHANGED <<voice_model, phase, mode, nsent, calls, consumed,
                   emitted, valid_chunks, resp, mergeVars, splitVars, lifeVars>>

\* Mutant: a unit whose synthesis raised is submitted to the pool again.
WorkerFinish_Retries(r, i, o) ==
    /\ ustate[r][i] = "running"
    /\ o \in PortOutcomes
    /\ outcome' = [outcome EXCEPT ![r][i] = o]
    /\ IF o = "raise" /\ calls[r][i] < 2
       THEN /\ ustate' = [ustate EXCEPT ![r][i] = "queued"]
            /\ workq' = Append(workq, <<r, i>>)
            /\ UNCHANGED <<result, order>>
       ELSE /\ ustate' = [ustate EXCEPT ![r][i] = "done"]
            /\ result' = [result EXCEPT ![r][i] = synthesize_sentence(r, i, o)]
            /\ order' = [order EXCEPT ![r] = Append(@, i)]
            /\ UNCHANGED workq
    /\ UNCHANGED <<voice_model, phase, mode, nsent, calls, consumed,
                   emitted, valid_chunks, resp, mergeVars, splitVars, lifeVars>>

\* Mutant: the pool thread of a call that raised is lost to the pool.
WorkerFinish_LeaksSlot(r, i, o) ==
    /\ ustate[r][i] = "running"
    /\ outcome[r][i] = "-"
    /\ o \in PortOutcomes
    /\ ustate' = [ustate EXCEPT ![r][i] = IF o = "raise" THEN "running" ELSE "done"]
    /\ outcome' = [outcome EXCEPT ![r][i] = o]
    /\ result' = [result EXCEPT ![r][i] = synthesize_sentence(r, i, o)]
    /\ order' = [order EXCEPT ![r] = Append(@, i)]
    /\ UNCHANGED <<voice_model, phase, mode, nsent, calls, workq, consumed,
                   emitted, valid_chunks, resp, mergeVars, splitVars, lifeVars>>

\* voice_model.synthesize returns or raises in the pool thread with outcome o,
\* synthesize_sentence returns, the executor future resolves and the unit's
\* task is done with audio_bytes: it is the next in the completion order
\* (for a stream, as_completed's callback puts it on its queue of done tasks).
WorkerFinish(r, i, o) ==
    /\ ustate[r][i] = "running"
    /\ o \in PortOutcomes
    /\ ustate' = [ustate EXCEPT ![r][i] = "done"]
    /\ outcome' = [outcome EXCEPT ![r][i] = o]
    /\ result' = [result EXCEPT ![r][i] = synthesize_sentence(r, i, o)]
    /\ order' = [order EXCEPT ![r] = Append(@, i)]
    /\ UNCHANGED <<voice_model, phase, mode, nsent, calls, workq, consumed,
                   emitted, valid_chunks, resp, mergeVars, splitVars, lifeVars>>

\* Mutant: the header counts the tasks, not the chunks that survived the filter.
XChunksCount_Tasks(all, valid) == Len(all)

\* "X-Chunks-Count": str(len(valid_chunks))
XChunksCount(all, valid) == Len(valid)

\* text_to_speech after gather: filter, 500 when nothing is left, else merge
BufferedRespond(r) ==
    /\ phase[r] = "gathering"
    /\ \A i \in 1..nsent[r] : ustate[r][i] = "done"
    /\ LET valid == SelectSeq(gather(r), Truthy)
       IN IF valid = <<>>
          THEN /\ phase' = [phase EXCEPT ![r] = "500"]
               /\ UNCHANGED <<valid_chunks, resp>>
          ELSE /\ phase' = [phase EXCEPT ![r] = "200"]
               /\ valid_chunks' = [valid_chunks EXCEPT ![r] = valid]
               /\ resp' = [resp EXCEPT ![r] = [body |-> combine_wav_chunks(valid),
                                               count |-> XChunksCount(gather(r), valid)]]
    /\ UNCHANGED <<voice_model, mode, nsent, ustate, result, outcome, calls,
                   workq, order, consumed, emitted, mergeVars, splitVars, lifeVars>>

\* Mutant: `yield chunk` without `if chunk:`.
StreamNext_NoFilter(r) ==
    /\ phase[r] = "streaming"
    /\ consumed[r] < Len(order[r])
    /\ emitted' = [emitted EXCEPT ![r] = Append(@, result[r][as_completed(r)])]
    /\ consumed' = [consumed EXCEPT ![r] = @ + 1]
    /\ UNCHANGED <<voice_model, phase, mode, nsent, ustate, result, outcome,
                   calls, workq, order, valid_chunks, resp, mergeVars, splitVars, lifeVars>>

\* stream_audio_chunks: `chunk = await task` for the next completed task,
\* and `yield chunk` when it is truthy
StreamNext(r) ==
    /\ phase[r] = "streaming"
    /\ consumed[r] < Len(order[r])
    /\ LET chunk == result[r][as_completed(r)]
       IN emitted' = [emitted EXCEPT ![r] = IF Truthy(chunk) THEN Append(@, chunk) ELSE @]
    /\ consumed' = [consumed EXCEPT ![r] = @ + 1]
    /\ UNCHANGED <<voice_model, phase, mode, nsent, ustate, result, outcome,
                   calls, workq, order, valid_chunks, resp, mergeVars, splitVars, lifeVars>>

\* Mutant: the loop ends as soon as no completed task is waiting.
StreamExhausted_NothingReady(r) == consumed[r] = Len(order[r])

\* the for loop over as_completed has handed out len(tasks) results
StreamExhausted(r) == consumed[r] = nsent[r]

\* stream_audio_chunks returns: the response body ends
StreamEnd(r) ==
    /\ phase[r] = "streaming"
    /\ StreamExhausted(r)
    /\ phase' = [phase EXCEPT ![r] = "ended"]
    /\ UNCHANGED <<voice_model, mode, nsent, ustate, result, outcome, calls,
                   workq, order, consumed, emitted, valid_chunks, resp, mergeVars, splitVars, lifeVars>>

\* The consumer stops reading: the generator is closed.  stream_audio_chunks
\* has no finally/cancel, so nothing else changes.
StreamClose(r) ==
    /\ phase[r] \in {"accepted", "streaming"}
    /\ phase' = [phase EXCEPT ![r] = "closed"]
    /\ UNCHANGED <<voice_model, mode, nsent, ustate, result, outcome, calls,
                   workq, order, consumed, emitted, valid_chunks, resp, mergeVars, splitVars, lifeVars>>

Next ==
    \/ \E r \in Reqs, n \in 0..MaxSentences : text_to_speech(r, n)
    \/ \E r \in Reqs, n \in 0..MaxSentences : text_to_speech_stream(r, n)
    \/ \E r \in Reqs : StreamStart(r)
    \/ WorkerStart
    \/ \E r \in Reqs, i \in Idx, o \in PortOutcomes : WorkerFinish(r, i, o)
    \/ \E r \in Reqs : BufferedRespond(r)
    \/ \E r \in Reqs : StreamNext(r)
    \/ \E r \in Reqs : StreamEnd(r)
    \/ \E r \in Reqs : StreamClose(r)

Spec == Init /\ [][Next]_vars

\* The pool's threads take the work that waits, every synthesis call returns
\* or raises, and the event loop resumes a generator whose consumer asks for
\* the next chunk (until the consumer closes the stream).
Fairness ==
    /\ WF_vars(WorkerStart)
    /\ WF_vars(\E r \in Reqs, i \in Idx, o \in PortOutcomes : WorkerFinish(r, i, o))
    /\ \A r \in Reqs : WF_vars(StreamNext(r))
    /\ \A r \in Reqs : WF_vars(StreamEnd(r))

FairSpec == Init /\ [][Next]_vars /\ Fairness

\* ------------------------------------------- combine_wav_chunks on its own
\* Formats the wave reader accepts: the voice's, three that differ from it
\* in one field each, and two the wave writer refuses (64-bit samples, a
\* zero frame rate).
Formats == { VoiceFormat,
             [nchannels |-> 2, sampwidth |-> 2, framerate |-> 22050],
             [nchannels |-> 1, sampwidth |-> 1, framerate |-> 22050],
             [nchannels |-> 1, sampwidth |-> 2, framerate |-> 16000],
             [nchannels |-> 1, sampwidth |-> 8, framerate |-> 22050],
             [nchannels |-> 1, sampwidth |-> 2, framerate |-> 0] }

\* The byte strings tried as the k-th element of chunks: b"", bytes that are
\* no WAV file, and WAV files of each format whose one sample frame is k.
ChunkChoices(k) ==
    {Raw(<<>>), Raw(<<k>>)}
        \cup {Wav(f, <<k>>, h) : f \in Formats, h \in {"canon", "other"}}

InitMerge ==
    /\ voice_model = TRUE
    /\ PipeIdle
    /\ MergeIdle
    /\ SplitIdle
    /\ LifeIdle

AppendChunk(c) ==
    /\ ~mergeDone
    /\ answer.status = "-"
    /\ Len(chunks) < MaxChunks
    /\ c \in ChunkChoices(Len(chunks) + 1)
    /\ chunks' = Append(chunks, c)
    /\ UNCHANGED <<merged, mergeDone, answer, pipeVars, splitVars, lifeVars>>

Combine ==
    /\ ~mergeDone
    /\ merged' = combine_wav_chunks(chunks)
    /\ mergeDone' = TRUE
    /\ UNCHANGED <<chunks, answer, pipeVars, splitVars, lifeVars>>

\* text_to_speech from the filter on, for the list `all` gather returned:
\* 500 when no chunk is truthy, else the merged audio and X-Chunks-Count
text_to_speech_answer(all) ==
    LET valid == SelectSeq(all, Truthy)
    IN IF valid = <<>>
       THEN [status |-> "500", valid_chunks |-> valid, body |-> None, count |-> 0]
       ELSE [status |-> "200", valid_chunks |-> valid,
             body |-> combine_wav_chunks(valid),
             count |-> XChunksCount(all, valid)]

\* text_to_speech answers a request whose tasks returned `chunks`
Answer ==
    /\ answer.status = "-"
    /\ answer' = text_to_speech_answer(chunks)
    /\ UNCHANGED <<chunks, merged, mergeDone, pipeVars, splitVars, lifeVars>>

NextMerge ==
    \/ \E c \in ChunkChoices(Len(chunks) + 1) : AppendChunk(c)
    \/ Combine
    \/ Answer

SpecMerge == InitMerge /\ [][NextMerge]_vars


\* ------------------------------------------------------ lifespan shutdown
\* SIGTERM: handle_sigterm creates the task trigger_shutdown, which sets
\* shutdown_event.
trigger_shutdown ==
    /\ ~shutdown_event
    /\ shutdown_event' = TRUE
    /\ UNCHANGED <<life, pipeVars, mergeVars, splitVars>>

\* The server ends the lifespan: it has stopped accepting requests, and
\* lifespan goes on after its yield to `await shutdown_event.wait()`.
lifespan_shutdown ==
    /\ life = "serving"
    /\ life' = "waiting"
    /\ UNCHANGED <<shutdown_event, pipeVars, mergeVars, splitVars>>

\* shutdown_event.wait() has returned and lifespan calls
\* executor.shutdown(wait=True), which blocks the event loop's thread.
executor_shutdown ==
    /\ life = "waiting"
    /\ shutdown_event
    /\ life' = "draining"
    /\ UNCHANGED <<shutdown_event, pipeVars, mergeVars, splitVars>>

\* Mutant: executor.shutdown(wait=False), lifespan goes on at once.
lifespan_unload_NoWait ==
    /\ life = "draining"
    /\ voice_model' = FALSE
    /\ life' = "unloaded"
    /\ UNCHANGED <<shutdown_event, phase, mode, nsent, ustate, result, outcome, calls,
                   workq, order, consumed, emitted, valid_chunks, resp,
                   mergeVars, splitVars>>

\* executor.shutdown(wait=True) returns when the pool's threads have ended,
\* which they do when no work item is queued or running; then, with no
\* await in between, `voice_model = None`.
lifespan_unload ==
    /\ life = "draining"
    /\ workq = <<>>
    /\ Running = {}
    /\ voice_model' = FALSE
    /\ life' = "unloaded"
    /\ UNCHANGED <<shutdown_event, phase, mode, nsent, ustate, result, outcome, calls,
                   workq, order, consumed, emitted, valid_chunks, resp,
                   mergeVars, splitVars>>

\* the event loop runs: its thread is not blocked in executor.shutdown
LoopRuns == life # "draining"

\* The service with its shutdown: requests arrive while the server accepts
\* them, handlers and generators go on whenever the event loop runs, the
\* pool's threads go on at all times.
NextLife ==
    \/ life = "serving" /\ \E r \in Reqs, n \in 0..MaxSentences : text_to_speech(r, n)
    \/ life = "serving" /\ \E r \in Reqs, n \in 0..MaxSentences : text_to_speech_stream(r, n)
    \/ LoopRuns /\ \E r \in Reqs : StreamStart(r)
    \/ WorkerStart
    \/ \E r \in Reqs, i \in Idx, o \in PortOutcomes : WorkerFinish(r, i, o)
    \/ LoopRuns /\ \E r \in Reqs : BufferedRespond(r)
    \/ LoopRuns /\ \E r \in Reqs : StreamNext(r)
    \/ LoopRuns /\ \E r \in Reqs : StreamEnd(r)
    \/ LoopRuns /\ \E r \in Reqs : StreamClose(r)
    \/ trigger_shutdown
    \/ lifespan_shutdown
    \/ executor_shutdown
    \/ lifespan_unload

SpecLife == Init /\ [][NextLife]_vars

\* ----------------------------------------- split_into_sentences on its own
\* The pieces a text is made of, each standing for its own characters: an
\* ASCII upper-case letter, a lower-case letter, the upper-case letter
\* E-acute (not ASCII), a blank, two sentence-terminal marks, the letters
\* of the abbreviation Dr (abbreviations[2]) and the placeholder the
\* function puts in place of "Dr.".
Chars == {"H", "o", "U+00C9", " ", ".", "!", "Dr", "__ABBR2__"}

\* [.!?] matches the last character of the piece
Terminal(c) == c \in {".", "!"}

\* [A-Z] matches the first character of the piece
AsciiUpper(c) == c \in {"H", "Dr"}

\* \s matches the piece; str.strip() removes it
Space(c) == c = " "

\* protected_text.replace('Dr.', '__ABBR2__')
RECURSIVE protect(_)
protect(t) ==
    IF t = <<>> THEN <<>>
    ELSE IF Len(t) >= 2 /\ t[1] = "Dr" /\ t[2] = "."
         THEN <<"__ABBR2__">> \o protect(SubSeq(t, 3, Len(t)))
    ELSE <<t[1]>> \o protect(Tail(t))

\* sentence.replace('__ABBR2__', 'Dr.')
RECURSIVE restore(_)
restore(t) ==
    IF t = <<>> THEN <<>>
    ELSE IF t[1] = "__ABBR2__" THEN <<"Dr", ".">> \o restore(Tail(t))
    ELSE <<t[1]>> \o restore(Tail(t))

\* sentence.strip()
RECURSIVE strip(_)
strip(t) ==
    IF t = <<>> THEN <<>>
    ELSE IF Space(t[1]) THEN strip(Tail(t))
    ELSE IF Space(t[Len(t)]) THEN strip(SubSeq(t, 1, Len(t) - 1))
    ELSE t

\* the last position of the run of white space that starts at position i
RECURSIVE RunEnd(_, _)
RunEnd(t, i) == IF i < Len(t) /\ Space(t[i + 1]) THEN RunEnd(t, i + 1) ELSE i

\* re.split(r'(?<=[.!?])\s+(?=[A-Z])', t) from position i on, cur being the
\* piece collected so far: a match is a whole run of white space that comes
\* right after a terminal mark and right before an ASCII upper-case letter.
RECURSIVE re_split(_, _, _)
re_split(t, i, cur) ==
    IF i > Len(t) THEN <<cur>>
    ELSE IF Space(t[i]) /\ i > 1 /\ Terminal(t[i - 1])
         THEN LET j == RunEnd(t, i)
              IN IF j < Len(t) /\ AsciiUpper(t[j + 1])
                 THEN <<cur>> \o re_split(t, j + 1, <<>>)
                 ELSE re_split(t, j + 1, cur \o SubSeq(t, i, j))
    ELSE re_split(t, i + 1, Append(cur, t[i]))

NonEmpty(x) == x # <<>>

split_into_sentences(t) ==
    LET protected_text == protect(t)
        raw_sentences == re_split(protected_text, 1, <<>>)
        stripped == [k \in 1..Len(raw_sentences) |-> strip(restore(raw_sentences[k]))]
    IN SelectSeq(stripped, NonEmpty)

InitSplit ==
    /\ voice_model = TRUE
    /\ PipeIdle
    /\ MergeIdle
    /\ SplitIdle
    /\ LifeIdle

\* the caller's text grows by one piece
Type(c) ==
    /\ ~splitDone
    /\ Len(text) < MaxText
    /\ c \in Chars
    /\ text' = Append(text, c)
    /\ UNCHANGED <<sentences, splitDone, pipeVars, mergeVars, lifeVars>>

SplitCall ==
    /\ ~splitDone
    /\ sentences' = split_into_sentences(text)
    /\ splitDone' = TRUE
    /\ UNCHANGED <<text, pipeVars, mergeVars, lifeVars>>

NextSplit ==
    \/ \E c \in Chars : Type(c)
    \/ SplitCall

SpecSplit == InitSplit /\ [][NextSplit]_vars

\* ------------------------------------------------------------------ claims
Units(r) == 1..nsent[r]
OkUnits(r) == {i \in Units(r) : outcome[r][i] = "ok"}
RaisedUnits(r) == {i \in Units(r) : outcome[r][i] = "raise"}

\* position of unit i in the completion order of request r, 0 before it resolves
Rank(r, i) == IF \E k \in 1..Len(order[r]) : order[r][k] = i
              THEN CHOOSE k \in 1..Len(order[r]) : order[r][k] = i
              ELSE 0

\* the sample frame of a chunk the port wrote: the unit it belongs to
FrameOf(c) == c.frames[1]

\* position at which the chunk of unit i was yielded by stream r, 0 if it was not
EmitPos(r, i) == IF \E k \in 1..Len(emitted[r]) : FrameOf(emitted[r][k]) = Tag(r, i)
                 THEN CHOOSE k \in 1..Len(emitted[r]) : FrameOf(emitted[r][k]) = Tag(r, i)
                 ELSE 0

Ascending(f) == \A p, q \in 1..Len(f) : p < q => f[p] < f[q]

\* C1: at every moment at most PoolSize (4) calls of synthesize_sentence are
\* running in the pool, however many units one or several requests have
\* submitted; the others wait in the executor's queue.
C1_PoolBound == Cardinality(Running) <= PoolSize

C1_Witness ==
    /\ Cardinality(Running) = PoolSize
    /\ workq # <<>>
    /\ \E u, v \in Running : u[1] # v[1]

\* C2: the list a buffered request hands to combine_wav_chunks holds the
\* chunks of exactly its successfully synthesized units, in ascending
\* sentence order, whatever the order in which the units completed.
C2_BufferedOrder ==
    \A r \in Reqs : phase[r] = "200" =>
        LET v == valid_chunks[r]
        IN /\ \A k \in 1..Len(v) : v[k].kind = "wav" /\ Len(v[k].frames) = 1
           /\ Ascending([k \in 1..Len(v) |-> FrameOf(v[k])])
           /\ {FrameOf(v[k]) : k \in 1..Len(v)} = {Tag(r, i) : i \in OkUnits(r)}

C2_Witness ==
    \E r \in Reqs :
        /\ phase[r] = "200"
        /\ nsent[r] = 3
        /\ order[r] = <<3, 1, 2>>
        /\ OkUnits(r) = {1, 3}
        /\ Len(valid_chunks[r]) = 2

\* C3: a stream yields in completion order: when units i and j both
\* synthesized successfully and j resolved before i, the chunk of i is never
\* yielded unless the chunk of j was yielded before it.
C3_StreamCompletionOrder ==
    \A r \in Reqs : mode[r] = "stream" =>
        \A i, j \in OkUnits(r) :
            (Rank(r, j) < Rank(r, i) /\ EmitPos(r, i) > 0)
                => (EmitPos(r, j) > 0 /\ EmitPos(r, j) < EmitPos(r, i))

C3_Witness ==
    \E r \in Reqs :
        /\ mode[r] = "stream"
        /\ nsent[r] = 3
        /\ Rank(r, 3) = 1
        /\ Rank(r, 1) = 2
        /\ EmitPos(r, 3) = 1
        /\ EmitPos(r, 1) = 2

\* C4: a unit whose synthesis raised resolves to None, every unit resolves to
\* the outcome of its own call, the step in which a unit fails changes no
\* other unit, no queue entry and no request's progress, and a request only
\* completes once every one of its units has resolved.
C4_OwnOutcome ==
    \A r \in Reqs :
        /\ \A i \in Units(r) : ustate[r][i] = "done" =>
               result[r][i] = IF outcome[r][i] = "raise" THEN None
                              ELSE PortBytes(r, i, outcome[r][i])
        /\ phase[r] \in {"200", "500", "ended"} =>
               \A i \in Units(r) : ustate[r][i] = "done"

C4_FailureStep ==
    \A r \in Reqs, i \in Idx :
        (outcome[r][i] # "raise" /\ outcome'[r][i] = "raise") =>
            /\ result'[r][i] = None
            /\ \A s \in Reqs, j \in Idx :
                   <<s, j>> # <<r, i>> =>
                       ustate'[s][j] = ustate[s][j] /\ result'[s][j] = result[s][j]
            /\ workq' = workq
            /\ phase' = phase

C4_FailureIsolated == [](C4_OwnOutcome) /\ [][C4_FailureStep]_vars

C4_Witness ==
    \E r \in Reqs :
        /\ phase[r] \in {"200", "ended"}
        /\ nsent[r] = 3
        /\ outcome[r][1] = "raise"
        /\ result[r][1] = None
        /\ outcome[r][2] = "ok"
        /\ outcome[r][3] = "ok"
        /\ Rank(r, 1) = 1

\* C5: a request all of whose units failed synthesis does not complete as a
\* success, neither as a 200 response of /tts nor as a stream that ran to
\* its end.
C5_TotalFailureSurfaces ==
    \A r \in Reqs :
        (nsent[r] > 0 /\ RaisedUnits(r) = Units(r)) => phase[r] \notin {"200", "ended"}

\* C6: a buffered request in which some units failed and some did not
\* answers 200 with audio made of the frames of the successful units in
\* sentence order, and reports their number as X-Chunks-Count.
C6_PartialSuccess ==
    \A r \in Reqs :
        (/\ mode[r] = "tts"
         /\ phase[r] \in {"200", "500"}
         /\ RaisedUnits(r) # {}
         /\ OkUnits(r) # {}) =>
            /\ phase[r] = "200"
            /\ resp[r].count = Cardinality(OkUnits(r))
            /\ resp[r].body.kind = "wav"
            /\ Len(resp[r].body.frames) = Cardinality(OkUnits(r))
            /\ Ascending(resp[r].body.frames)
            /\ \A i \in OkUnits(r) :
                   \E p \in 1..Len(resp[r].body.frames) : resp[r].body.frames[p] = Tag(r, i)

C6_Witness ==
    \E r \in Reqs :
        /\ phase[r] = "200"
        /\ nsent[r] = 3
        /\ outcome[r] = [i \in Idx |-> IF i = 2 THEN "raise" ELSE "ok"]
        /\ resp[r].body.frames = <<Tag(r, 1), Tag(r, 3)>>
        /\ resp[r].count = 2

\* C7: once the consumer of a stream has stopped reading, none of the
\* stream's units that still wait in the executor's queue is started.
C7_NoDispatchAfterClose ==
    [][\A r \in Reqs, i \in Idx :
          (phase[r] = "closed" /\ ustate[r][i] = "queued") => ustate'[r][i] # "running"]_vars

\* C8: a stream whose consumer keeps reading comes to its end, and it has
\* ended only when every one of its units has resolved.
C8_StreamTerminates ==
    /\ \A r \in Reqs : (phase[r] = "streaming") ~> (phase[r] \in {"ended", "closed"})
    /\ [](\A r \in Reqs : phase[r] = "ended" =>
              /\ consumed[r] = nsent[r]
              /\ \A i \in Units(r) : ustate[r][i] = "done")

C8_Witness ==
    \E r \in Reqs :
        /\ phase[r] = "ended"
        /\ nsent[r] = 3
        /\ OkUnits(r) # {}
        /\ RaisedUnits(r) # {}

\* C9: voice_model.synthesize is called at most once for a unit, exactly
\* once for a unit that has resolved or is running, and a unit that failed
\* is not submitted again.
C9_ExactlyOnce ==
    \A r \in Reqs, i \in Idx :
        /\ calls[r][i] <= 1
        /\ ustate[r][i] \in {"running", "done"} => calls[r][i] = 1
        /\ ustate[r][i] \in {"none", "queued"} => calls[r][i] = 0
        /\ outcome[r][i] = "raise" => ustate[r][i] = "done"

C9_Witness ==
    \E r \in Reqs :
        /\ phase[r] \in {"200", "500", "ended"}
        /\ nsent[r] = 3
        /\ RaisedUnits(r) # {}
        /\ \A i \in Units(r) : calls[r][i] = 1

\* What C10 says of a merge: the merged file has the first chunk's format
\* and its frames are those of the chunks that are WAV files of that format,
\* in input order, so that a skipped chunk takes no later chunk with it.
C10_Merged ==
    /\ merged.kind = "wav"
    /\ getparams(merged) = getparams(chunks[1])
    /\ Ascending(merged.frames)
    /\ \A k \in 1..Len(chunks) :
           (\E p \in 1..Len(merged.frames) : merged.frames[p] = k)
               <=> (Parseable(chunks[k]) /\ getparams(chunks[k]) = getparams(chunks[1]))

Uniform(cs) == \A k \in 1..Len(cs) : Parseable(cs[k]) /\ getparams(cs[k]) = getparams(cs[1])

\* the frames of the chunks one after the other, in input order
RECURSIVE Concat(_)
Concat(cs) == IF cs = <<>> THEN <<>> ELSE Head(cs).frames \o Concat(Tail(cs))

C12_EmptyAndSingle ==
    mergeDone =>
        /\ chunks = <<>> => merged = Raw(<<>>)
        /\ Len(chunks) = 1 => merged = chunks[1]

C12_Witness ==
    /\ mergeDone
    /\ Len(chunks) = 1
    /\ chunks[1] = Wav(VoiceFormat, <<1>>, "other")
    /\ merged = chunks[1]

\* C13: when the first chunk is no WAV file the merge returns that chunk's
\* bytes as they are, whatever the other chunks are, and it returns bytes
\* in every case (it never raises).
C13_CorruptFirstPassthrough ==
    mergeDone =>
        /\ merged.kind \in {"raw", "wav"}
        /\ (chunks # <<>> /\ ~Parseable(chunks[1])) => merged = chunks[1]

C13_Witness ==
    /\ mergeDone
    /\ Len(chunks) = 3
    /\ chunks[1] = Raw(<<1>>)
    /\ Parseable(chunks[2])
    /\ Parseable(chunks[3])
    /\ getparams(chunks[2]) = getparams(chunks[3])
    /\ merged = Raw(<<1>>)

\* C16: over chunks of one format, merging each chunk on its own and then
\* merging the results gives the merge of all the chunks at once, and so
\* does merging any leading or trailing part of the list first.
C16_MergeAssociative ==
    (mergeDone /\ Uniform(chunks)) =>
        LET n == Len(chunks)
            each == [k \in 1..n |-> combine_wav_chunks(<<chunks[k]>>)]
        IN /\ combine_wav_chunks(each) = merged
           /\ \A k \in 1..(n - 1) :
                  /\ combine_wav_chunks(<<combine_wav_chunks(SubSeq(chunks, 1, k))>>
                                            \o SubSeq(chunks, k + 1, n)) = merged
                  /\ combine_wav_chunks(SubSeq(chunks, 1, k)
                                            \o <<combine_wav_chunks(SubSeq(chunks, k + 1, n))>>) = merged

C16_Witness ==
    /\ mergeDone
    /\ Len(chunks) = 3
    /\ Uniform(chunks)
    /\ Writable(getparams(chunks[1]))
    /\ chunks[1].hdr = "other"
    /\ merged = Wav(getparams(chunks[1]), <<1, 2, 3>>, "canon")
    /\ combine_wav_chunks(<<combine_wav_chunks(SubSeq(chunks, 1, 2)), chunks[3]>>) = merged

\* the number of chunks whose audio is in the body of an answer: every chunk
\* tried holds one sample frame (or, when it is no WAV file, one byte)
ChunksInBody(a) == Len(a.body.frames)

\* C14: the X-Chunks-Count of a 200 answer of /tts is the number of chunks
\* whose audio is in the body it returns, also when the merge has left a
\* chunk out.
C14_CountIsMerged ==
    answer.status = "200" => answer.count = ChunksInBody(answer)

\* C15: a text with no '.', '!' or '?' in it comes back as one sentence,
\* the text without its leading and trailing white space.
C15_NoPunctuationOneUnit ==
    (splitDone /\ \A k \in 1..Len(text) : ~Terminal(text[k]))
        => sentences = <<strip(text)>>

\* the text with every non-ASCII upper-case letter replaced by an ASCII one
ToAscii(t) == [k \in 1..Len(t) |-> IF t[k] = "U+00C9" THEN "H" ELSE t[k]]

\* C18: white space after '.', '!' or '?' and before an upper-case letter
\* splits the text whether that letter is ASCII or not: a text is split at
\* the same places as the text that has ASCII upper-case letters instead of
\* its non-ASCII upper-case letters.
C18_UnicodeUpperSplits ==
    splitDone =>
        [k \in 1..Len(sentences) |-> ToAscii(sentences[k])]
            = split_into_sentences(ToAscii(text))

\* C17: a pool thread is held by a unit exactly from the start of its
\* synthesis call until the call returns or raises, the step in which a
\* call resolves, either way, sets one thread free, and so no thread is
\* held once every call that was started has resolved.
C17_HeldWhileCalling ==
    /\ \A r \in Reqs, i \in Idx :
           <<r, i>> \in Running <=> (calls[r][i] > 0 /\ outcome[r][i] = "-")
    /\ (\A r \in Reqs, i \in Idx : calls[r][i] > 0 => outcome[r][i] # "-")
           => Cardinality(Running) = 0

C17_ReleaseStep ==
    \A r \in Reqs, i \in Idx :
        (outcome[r][i] = "-" /\ outcome'[r][i] # "-") =>
            /\ <<r, i>> \in Running
            /\ Running' = Running \ {<<r, i>>}

C17_SlotsReleased == [](C17_HeldWhileCalling) /\ [][C17_ReleaseStep]_vars

C17_Witness ==
    /\ \E r \in Reqs, i \in Idx : outcome[r][i] = "raise" /\ <<r, i>> \notin Running
    /\ Cardinality(Running) = PoolSize

\* C19: what a stream has yielded are chunks of units of its own that
\* synthesized successfully, each at most once, none for a unit that failed;
\* and when the stream has run to its end, the chunk of every successful
\* unit has been yielded.
C19_StreamExactlySuccesses ==
    \A r \in Reqs : mode[r] = "stream" =>
        /\ \A k \in 1..Len(emitted[r]) :
               \E i \in OkUnits(r) : emitted[r][k] = PortBytes(r, i, "ok")
        /\ \A k, l \in 1..Len(emitted[r]) : emitted[r][k] = emitted[r][l] => k = l
        /\ phase[r] = "ended" =>
               /\ Len(emitted[r]) = Cardinality(OkUnits(r))
               /\ \A i \in OkUnits(r) : EmitPos(r, i) > 0

C19_Witness ==
    \E r \in Reqs :
        /\ phase[r] = "ended"
        /\ nsent[r] = 3
        /\ order[r] = <<2, 3, 1>>
        /\ outcome[r][3] = "raise"
        /\ emitted[r] = <<PortBytes(r, 2, "ok"), PortBytes(r, 1, "ok")>>

\* C20: the model is unloaded only in a step taken after shutdown_event
\* was set and the pool was shut down, with no synthesis call queued or
\* running; and from then on no synthesis call is queued or running.
C20_Unloaded ==
    life = "unloaded" =>
        /\ ~voice_model
        /\ shutdown_event
        /\ Running = {}
        /\ workq = <<>>

C20_UnloadStep ==
    (life # "unloaded" /\ life' = "unloaded") =>
        /\ shutdown_event
        /\ life = "draining"
        /\ Running = {}
        /\ workq = <<>>
        /\ \A r \in Reqs, i \in Idx : ustate[r][i] \in {"none", "done"}

C20_UnloadAfterDrain ==
    /\ [](C20_Unloaded)
    /\ [](voice_model \/ life = "unloaded" \/ Running = {})
    /\ [][C20_UnloadStep]_vars

C20_Witness ==
    /\ life = "unloaded"
    /\ \E r \in Reqs :
           /\ phase[r] = "closed"
           /\ nsent[r] = 3
           /\ consumed[r] = 0
           /\ \A i \in Units(r) : calls[r][i] = 1 /\ ustate[r][i] = "done"
    /\ \E r \in Reqs : phase[r] = "accepted"

====
